---- MODULE Spec2Model ----
(***************************************************************************)
(* Model of charon's "remove read discriminant" pass                       *)
(* (transform/remove_read_discriminant.rs) and of the crate assembly and   *)
(* export (export.rs), with the parts of types.rs they rely on.            *)
(*                                                                         *)
(* Statements are records tagged by k.  Diagnostic metadata (Statement.meta*)
(* and spans) is left out: no operation of the pass branches on it.        *)
(***************************************************************************)
EXTENDS Integers, Sequences, FiniteSets, TLC

VARIABLES
    bodies,               \* the bodies of the crate's functions and globals
    crate0,               \* the bodies and the error count the context started with
    type_decls,           \* ctx.type_decls: TypeDeclId -> declaration
    error_count,          \* ctx.error_count
    continue_on_failure,  \* ctx.continue_on_failure()
    id_to_file,           \* ctx.id_to_file: FileId -> FileName
    ordered_decls,        \* ctx.ordered_decls: Option<DeclarationsGroups>
    trait_decls,          \* ctx.trait_decls
    trait_impls,          \* ctx.trait_impls
    phase,                \* "idle", "pass", "exported", "panicked"
    cur,                  \* index of the body iter_bodies is at
    todo,                 \* pending visit_statement calls (paths), first on top
    runs,                 \* the state at the end of every completed transform
    last,                 \* the last update_statement call: input and result
    key_order,            \* the order the last id_to_file.keys() iterated in
    crates,               \* the snapshots GCrateData::new has assembled
    outputs,              \* what the last serialize_to_file did
    trait_refs,           \* a list of trait instance ids (TraitInstanceId)
    ordered_refs          \* that list once sorted by the derived order

vars == <<bodies, crate0, type_decls, error_count, continue_on_failure, id_to_file,
          ordered_decls, trait_decls, trait_impls, phase, cur, todo, runs, last,
          key_order, crates, outputs, trait_refs, ordered_refs>>

refs_vars == <<trait_refs, ordered_refs>>

ctx_vars == <<crate0, type_decls, continue_on_failure, id_to_file, ordered_decls,
              trait_decls, trait_impls>>

-----------------------------------------------------------------------------
(* Bounds of the model *)

MaxDepth == 3         \* nesting depth of the generated statement trees
MaxCaseValues == 3    \* case values of a generated switch, all arms together
MaxPriorErrors == 1   \* errors registered before the pass starts
MaxRuns == 2          \* times transform is run on the crate
MaxCrates == 2        \* times the context is assembled into a snapshot
MaxFiles == 2         \* file ids of the file table
MaxRefs == 2          \* length of a list of trait instance ids

-----------------------------------------------------------------------------
(* llbc_ast statements, places, operands, scalar values *)

None == [k |-> "None"]

Place(v, proj) == [var_id |-> v, projection |-> proj]

Nop == [k |-> "Nop"]

Break(n) == [k |-> "Break", i |-> n]

Discriminant(p, adt_id) == [k |-> "Discriminant", p |-> p, adt_id |-> adt_id]

Use(op) == [k |-> "Use", op |-> op]

Assign(dest, rv) == [k |-> "Assign", dest |-> dest, rv |-> rv]

Sequence(st1, st2) == [k |-> "Sequence", st1 |-> st1, st2 |-> st2]

Loop(st) == [k |-> "Loop", body |-> st]

Move(p) == [k |-> "Move", p |-> p]

Copy(p) == [k |-> "Copy", p |-> p]

Arm(cases, st) == [cases |-> cases, st |-> st]

SwitchInt(op, int_ty, targets, otherwise) ==
    [k |-> "SwitchInt", op |-> op, int_ty |-> int_ty, targets |-> targets,
     otherwise |-> otherwise]

Match(p, targets, otherwise) ==
    [k |-> "Match", p |-> p, targets |-> targets, otherwise |-> otherwise]

If(op, st1, st2) == [k |-> "If", op |-> op, st1 |-> st1, st2 |-> st2]

Scalar(ty, v) == [ty |-> ty, v |-> v]

-----------------------------------------------------------------------------
(* types.rs *)

\* IntegerTy: the bit width of the signed integer types a discriminant has
Width(ty) ==
    CASE ty = "I8" -> 8
      [] ty = "I16" -> 16

\* Variant: the discriminant is the u128 bit pattern of the variant's tag
Variant(name, discriminant) ==
    [name |-> name, fields |-> <<>>, discriminant |-> discriminant]

Struct == [k |-> "Struct", fields |-> <<>>]

Enum(variants) == [k |-> "Enum", variants |-> variants]

Opaque == [k |-> "Opaque"]

Error(msg) == [k |-> "Error", msg |-> msg]

TypeDecl(def_id, name, kind) == [def_id |-> def_id, name |-> name, kind |-> kind]

\* ScalarValue::to_bits: the value reinterpreted as unsigned at its own width
to_bits(x) == x.v % (2 ^ Width(x.ty))

\* TraitInstanceId: the variants in the order of their declaration
TraitInstanceIdVariants ==
    <<"TraitImpl", "BuiltinOrAuto", "Clause", "ParentClause", "ItemClause",
      "FnPointer", "Closure", "SelfId", "Unsolved", "Unknown">>

\* a trait instance id: its variant, the boxed instance id it starts with (for
\* ParentClause and ItemClause) and its other fields; ids, names, types and
\* generic arguments are numbers
TraitInstanceId(k, inst, fields) == [k |-> k, inst |-> inst, fields |-> fields]

TraitImpl(id) == TraitInstanceId("TraitImpl", None, <<id>>)

BuiltinOrAuto(id) == TraitInstanceId("BuiltinOrAuto", None, <<id>>)

Clause(id) == TraitInstanceId("Clause", None, <<id>>)

ParentClause(inst, decl, clause) == TraitInstanceId("ParentClause", inst, <<decl, clause>>)

ItemClause(inst, decl, item, clause) ==
    TraitInstanceId("ItemClause", inst, <<decl, item, clause>>)

FnPointer(ty) == TraitInstanceId("FnPointer", None, <<ty>>)

Closure(id, args) == TraitInstanceId("Closure", None, <<id, args>>)

SelfId == TraitInstanceId("SelfId", None, <<>>)

Unsolved(decl, args) == TraitInstanceId("Unsolved", None, <<decl, args>>)

Unknown(msg) == TraitInstanceId("Unknown", None, <<msg>>)

\* the position of a variant in the declaration of the enum
variant_index(k) ==
    CHOOSE i \in DOMAIN TraitInstanceIdVariants : TraitInstanceIdVariants[i] = k

\* the lexicographic order of two field lists of the same variant
RECURSIVE cmp_fields(_, _)
cmp_fields(a, b) ==
    IF a = <<>> THEN "Equal"
    ELSE IF Head(a) < Head(b) THEN "Less"
    ELSE IF Head(a) > Head(b) THEN "Greater"
    ELSE cmp_fields(Tail(a), Tail(b))

\* #[derive(Ord)] on TraitInstanceId: by variant in declaration order, then by
\* the fields in order
RECURSIVE cmp(_, _)
cmp(a, b) ==
    IF variant_index(a.k) < variant_index(b.k) THEN "Less"
    ELSE IF variant_index(a.k) > variant_index(b.k) THEN "Greater"
    ELSE LET boxed == IF a.inst = None THEN "Equal" ELSE cmp(a.inst, b.inst) IN
         IF boxed # "Equal" THEN boxed ELSE cmp_fields(a.fields, b.fields)

\* insertion of x into a sorted list, after the elements that are not greater
RECURSIVE insert_ref(_, _)
insert_ref(s, x) ==
    IF s = <<>> THEN <<x>>
    ELSE IF cmp(x, Head(s)) = "Less" THEN <<x>> \o s
    ELSE <<Head(s)>> \o insert_ref(Tail(s), x)

\* a (stable) sort of a list of trait instance ids by the derived order
RECURSIVE sort_refs(_)
sort_refs(s) ==
    IF s = <<>> THEN <<>>
    ELSE insert_ref(sort_refs(SubSeq(s, 1, Len(s) - 1)), s[Len(s)])

\* a list of trait instance ids is sorted
sort_trait_refs ==
    /\ trait_refs # <<>>
    /\ ordered_refs = <<>>
    /\ ordered_refs' = sort_refs(trait_refs)
    /\ UNCHANGED <<ctx_vars, bodies, error_count, phase, cur, todo, runs, last,
                   key_order, crates, outputs, trait_refs>>

-----------------------------------------------------------------------------
(* remove_read_discriminant.rs: Visitor::update_statement *)

\* What a call of update_statement leaves: the statement, the number of errors
\* it registered, and whether it panicked
Outcome(st, errs, panic) == [st |-> st, errs |-> errs, panic |-> panic]

\* register_error_or_panic!: count the error, then panic unless the context
\* continues on failure; st is the statement left when it does not panic
register_error_or_panic(cont, st) == Outcome(st, 1, ~cont)

Panic(st) == Outcome(st, 0, TRUE)

IsDiscriminantRead(st) == st.k = "Assign" /\ st.rv.k = "Discriminant"

IsSwitchInt(st) == st.k = "SwitchInt"

\* the first pattern of update_statement: a sequence headed by a discriminant read
IsReadSequence(st) == st.k = "Sequence" /\ IsDiscriminantRead(st.st1)

\* the second pattern: a discriminant read that heads no sequence
IsLoneReadIgnored(st) == FALSE

IsLoneRead(st) == IsDiscriminantRead(st)

\* assert!(dest.projection.is_empty())
dest_is_variable(dest) == dest.projection = <<>>

\* following_switch without its second pattern, the switch that ends a block
following_switch_in_sequence(st2) ==
    IF st2.k = "Sequence" /\ IsSwitchInt(st2.st1)
    THEN [found |-> TRUE, switch |-> st2.st1, st3_opt |-> st2.st2]
    ELSE [found |-> FALSE, switch |-> None, st3_opt |-> None]

\* following_switch looking for the switch under a second sequencing wrapper too
following_switch_nested(st2) ==
    IF st2.k = "Sequence" /\ IsSwitchInt(st2.st1)
    THEN [found |-> TRUE, switch |-> st2.st1, st3_opt |-> st2.st2]
    ELSE IF IsSwitchInt(st2)
    THEN [found |-> TRUE, switch |-> st2, st3_opt |-> None]
    ELSE IF st2.k = "Sequence" /\ st2.st1.k = "Sequence" /\ IsSwitchInt(st2.st1.st1)
    THEN [found |-> TRUE, switch |-> st2.st1.st1,
          st3_opt |-> Sequence(st2.st1.st2, st2.st2)]
    ELSE [found |-> FALSE, switch |-> None, st3_opt |-> None]

\* the match on st2.content: the switch that follows the read, and st3 if any
following_switch(st2) ==
    IF st2.k = "Sequence" /\ IsSwitchInt(st2.st1)
    THEN [found |-> TRUE, switch |-> st2.st1, st3_opt |-> st2.st2]
    ELSE IF IsSwitchInt(st2)
    THEN [found |-> TRUE, switch |-> st2, st3_opt |-> None]
    ELSE [found |-> FALSE, switch |-> None, st3_opt |-> None]

\* let Switch::SwitchInt(Operand::Move(op_p), ..) = switch else unreachable, and
\* assert!(op_p.projection.is_empty() && op_p.var_id == dest.var_id)
operand_moves_dest(op, dest) ==
    /\ op.k = "Move"
    /\ op.p.projection = <<>>
    /\ op.p.var_id = dest.var_id

\* lookup_variants registering no error for a struct or an opaque type
lookup_variants_silent(decls, adt_id) ==
    IF adt_id \in DOMAIN decls /\ decls[adt_id].kind.k = "Enum"
    THEN [some |-> TRUE, variants |-> decls[adt_id].kind.variants, registers |-> FALSE]
    ELSE [some |-> FALSE, variants |-> <<>>, registers |-> FALSE]

\* lookup_variants registering an error for an error placeholder as well
lookup_variants_registering(decls, adt_id) ==
    IF adt_id \notin DOMAIN decls
    THEN [some |-> FALSE, variants |-> <<>>, registers |-> FALSE]
    ELSE LET kind == decls[adt_id].kind IN
         IF kind.k = "Enum"
         THEN [some |-> TRUE, variants |-> kind.variants, registers |-> FALSE]
         ELSE [some |-> FALSE, variants |-> <<>>, registers |-> TRUE]

\* the lookup of the scrutinee's declaration: the variants (or None), and
\* whether the lookup registers an error
lookup_variants(decls, adt_id) ==
    IF adt_id \notin DOMAIN decls
    THEN [some |-> FALSE, variants |-> <<>>, registers |-> FALSE]
    ELSE LET kind == decls[adt_id].kind IN
         CASE kind.k \in {"Struct", "Opaque"} ->
                [some |-> FALSE, variants |-> <<>>, registers |-> TRUE]
           [] kind.k = "Error" ->
                [some |-> FALSE, variants |-> <<>>, registers |-> FALSE]
           [] kind.k = "Enum" ->
                [some |-> TRUE, variants |-> kind.variants, registers |-> FALSE]

\* VariantId of the i-th variant of a declaration (ids count from 0)
VariantIdFromOne(i) == i

VariantIdOf(i) == i - 1

\* discr_to_id: collecting (discriminant, id) pairs into a HashMap keeps, for a
\* repeated discriminant, the pair inserted last
discr_to_id(variants) ==
    [d \in {variants[i].discriminant : i \in DOMAIN variants} |->
        VariantIdOf(CHOOSE i \in DOMAIN variants :
            /\ variants[i].discriminant = d
            /\ \A j \in DOMAIN variants : variants[j].discriminant = d => j <= i)]

\* get_variant_id looking the signed value up, not its bit pattern
get_variant_id_signed(map, x) ==
    IF x.v \in DOMAIN map THEN <<map[x.v]>> ELSE <<>>

\* discr_to_id.get(&x.to_bits()), as a list of at most one id
get_variant_id(map, x) ==
    LET discr == to_bits(x) IN
    IF discr \in DOMAIN map THEN <<map[discr]>> ELSE <<>>

\* convert_cases giving up on an arm at its first unknown case value
RECURSIVE convert_cases_stopping(_, _)
convert_cases_stopping(v, map) ==
    IF v = <<>> \/ get_variant_id(map, Head(v)) = <<>> THEN <<>>
    ELSE get_variant_id(map, Head(v)) \o convert_cases_stopping(Tail(v), map)

\* the filter_map over the case values of one arm
RECURSIVE convert_cases(_, _)
convert_cases(v, map) ==
    IF v = <<>> THEN <<>>
    ELSE get_variant_id(map, Head(v)) \o convert_cases(Tail(v), map)

\* the map over the arms of the switch
convert_targets(targets, map) ==
    [i \in DOMAIN targets |->
        Arm(convert_cases(targets[i].cases, map), targets[i].st)]

\* the case values of the switch that are no variant's discriminant, by position
unknown_cases(targets, map) ==
    UNION {{<<i, j>> : j \in {n \in DOMAIN targets[i].cases :
                                get_variant_id(map, targets[i].cases[n]) = <<>>}} :
           i \in DOMAIN targets}

\* covered_discriminants: the bit patterns of all case values
covered_discriminants(targets) ==
    UNION {{to_bits(targets[i].cases[j]) : j \in DOMAIN targets[i].cases} :
           i \in DOMAIN targets}

covers_all_counting_cases(targets, map) ==
    Cardinality(UNION {{<<i, j>> : j \in DOMAIN targets[i].cases} : i \in DOMAIN targets})
        = Cardinality(DOMAIN map)

covers_all(targets, map) ==
    Cardinality(covered_discriminants(targets)) = Cardinality(DOMAIN map)

\* new_sequence(l, r), for an l that is no sequence
new_sequence(l, r) == Sequence(l, r)

\* the statement the rewrite puts in place of the sequence
rewritten(p, targets, otherwise, st3_opt) ==
    LET switch == Match(p, targets, otherwise) IN
    IF st3_opt # None THEN new_sequence(switch, st3_opt) ELSE switch

\* the rewrite proper, once the variants of the scrutinee are known
rewrite_switch(p, switch, st3_opt, variants, cont) ==
    LET map == discr_to_id(variants)
        unknown == Cardinality(unknown_cases(switch.targets, map))
        targets == convert_targets(switch.targets, map)
        otherwise == IF covers_all(switch.targets, map) THEN None
                     ELSE switch.otherwise
    IN  IF unknown > 0 /\ ~cont
        THEN register_error_or_panic(cont, Nop)
        ELSE Outcome(rewritten(p, targets, otherwise, st3_opt), unknown, FALSE)

\* the first arm of update_statement: st is a sequence headed by a read
update_read_sequence(st, decls, count, cont) ==
    LET dest == st.st1.dest
        p == st.st1.rv.p
        adt_id == st.st1.rv.adt_id
        f == following_switch(st.st2)
        v == lookup_variants(decls, adt_id)
    IN  IF ~dest_is_variable(dest) THEN Panic(st)
        ELSE IF ~f.found THEN register_error_or_panic(cont, Nop)
        ELSE IF ~operand_moves_dest(f.switch.op, dest) THEN Panic(st)
        ELSE IF ~v.some
        THEN IF v.registers
             THEN register_error_or_panic(cont, Nop)
             ELSE IF count > 0 THEN Outcome(Nop, 0, FALSE) ELSE Panic(st)
        ELSE rewrite_switch(p, f.switch, f.st3_opt, v.variants, cont)

\* update_statement keeping the statement it should replace by a no-op when it
\* registers an error, and ignoring a read that heads no sequence
update_statement_keeping(st, decls, count, cont) ==
    IF IsReadSequence(st)
    THEN LET r == update_read_sequence(st, decls, count, cont) IN
         IF r.st = Nop THEN Outcome(st, r.errs, r.panic) ELSE r
    ELSE Outcome(st, 0, FALSE)

\* update_statement giving up on rewriting once an error has been counted: it
\* then replaces every sequence headed by a read by a no-op
update_statement_giving_up(st, decls, count, cont) ==
    IF IsReadSequence(st)
    THEN IF count > 0 THEN Outcome(Nop, 0, FALSE)
         ELSE update_read_sequence(st, decls, count, cont)
    ELSE IF IsLoneRead(st) THEN Panic(st)
    ELSE Outcome(st, 0, FALSE)

\* update_statement treating a read that heads no sequence as one more local
\* error: registered, and the read replaced by a no-op
update_statement_nopping(st, decls, count, cont) ==
    IF IsReadSequence(st) THEN update_read_sequence(st, decls, count, cont)
    ELSE IF IsLoneRead(st) THEN register_error_or_panic(cont, Nop)
    ELSE Outcome(st, 0, FALSE)

update_statement(st, decls, count, cont) ==
    IF IsReadSequence(st) THEN update_read_sequence(st, decls, count, cont)
    ELSE IF IsLoneRead(st) THEN Panic(st)
    ELSE Outcome(st, 0, FALSE)

-----------------------------------------------------------------------------
(* The walk of the visitor: visit_statement and default_visit_statement *)

\* the sub-statements default_visit_statement visits, in the order it visits them
Children(st) ==
    CASE st.k = "Sequence" -> <<st.st1, st.st2>>
      [] st.k = "Loop" -> <<st.body>>
      [] st.k = "If" -> <<st.st1, st.st2>>
      [] st.k = "SwitchInt" ->
            [i \in DOMAIN st.targets |-> st.targets[i].st] \o <<st.otherwise>>
      [] st.k = "Match" ->
            [i \in DOMAIN st.targets |-> st.targets[i].st]
                \o (IF st.otherwise = None THEN <<>> ELSE <<st.otherwise>>)
      [] OTHER -> <<>>

\* st with its i-th sub-statement replaced
SetChild(st, i, new) ==
    CASE st.k = "Sequence" ->
            IF i = 1 THEN [st EXCEPT !.st1 = new] ELSE [st EXCEPT !.st2 = new]
      [] st.k = "Loop" -> [st EXCEPT !.body = new]
      [] st.k = "If" ->
            IF i = 1 THEN [st EXCEPT !.st1 = new] ELSE [st EXCEPT !.st2 = new]
      [] st.k \in {"SwitchInt", "Match"} ->
            IF i <= Len(st.targets) THEN [st EXCEPT !.targets[i].st = new]
            ELSE [st EXCEPT !.otherwise = new]

\* the statement a path (a list of child positions) leads to
RECURSIVE At(_, _)
At(st, path) ==
    IF path = <<>> THEN st ELSE At(Children(st)[Head(path)], Tail(path))

\* st with the statement at a path replaced
RECURSIVE ReplaceAt(_, _, _)
ReplaceAt(st, path, new) ==
    IF path = <<>> THEN new
    ELSE SetChild(st, Head(path),
                  ReplaceAt(Children(st)[Head(path)], Tail(path), new))

\* default_visit_statement visiting the statement itself again before its
\* sub-statements
child_visits_again(st, path) ==
    <<path>> \o [i \in DOMAIN Children(st) |-> Append(path, i)]

\* the visits default_visit_statement makes from the statement at a path
child_visits(st, path) == [i \in DOMAIN Children(st) |-> Append(path, i)]

\* visit_statement taking the declaration of the scrutinee out of the type
\* table (remove for get) when it updates a sequence headed by a read
visit_statement_taking ==
    /\ phase = "pass"
    /\ todo # <<>>
    /\ LET path == Head(todo)
           st == At(bodies[cur], path)
           r == update_statement(st, type_decls, error_count, continue_on_failure)
       IN  /\ error_count' = error_count + r.errs
           /\ last' = [k |-> "update_statement", before |-> st, after |-> r.st,
                       errs |-> r.errs, panic |-> r.panic, count |-> error_count]
           /\ type_decls' =
                 IF IsReadSequence(st)
                 THEN [id \in DOMAIN type_decls \ {st.st1.rv.adt_id} |-> type_decls[id]]
                 ELSE type_decls
           /\ IF r.panic
              THEN /\ phase' = "panicked"
                   /\ UNCHANGED <<bodies, todo>>
              ELSE /\ phase' = phase
                   /\ bodies' = [bodies EXCEPT ![cur] = ReplaceAt(@, path, r.st)]
                   /\ todo' = child_visits(r.st, path) \o Tail(todo)
    /\ UNCHANGED <<crate0, continue_on_failure, id_to_file, ordered_decls,
                   trait_decls, trait_impls, cur, runs, key_order, crates, outputs,
                   refs_vars>>

\* visit_statement on the statement on top of the pending visits:
\* update_statement, then default_visit_statement on what it left
visit_statement ==
    /\ UNCHANGED refs_vars
    /\ phase = "pass"
    /\ todo # <<>>
    /\ LET path == Head(todo)
           st == At(bodies[cur], path)
           r == update_statement(st, type_decls, error_count, continue_on_failure)
       IN  /\ error_count' = error_count + r.errs
           /\ last' = [k |-> "update_statement", before |-> st, after |-> r.st,
                       errs |-> r.errs, panic |-> r.panic, count |-> error_count]
           /\ IF r.panic
              THEN /\ phase' = "panicked"
                   /\ UNCHANGED <<bodies, todo>>
              ELSE /\ phase' = phase
                   /\ bodies' = [bodies EXCEPT ![cur] = ReplaceAt(@, path, r.st)]
                   /\ todo' = child_visits(r.st, path) \o Tail(todo)
    /\ UNCHANGED <<ctx_vars, cur, runs, key_order, crates, outputs>>

\* visit_statement as a function: the statement tree the walk leaves when started
\* at st with the error counter at count, the counter it leaves, and whether the
\* walk panicked
RECURSIVE visit(_, _, _), visit_children(_, _, _, _)
visit(st, count, cont) ==
    LET r == update_statement(st, type_decls, count, cont) IN
    IF r.panic THEN [st |-> st, count |-> count + r.errs, panic |-> TRUE]
    ELSE visit_children(r.st, 1, count + r.errs, cont)

\* default_visit_statement from the i-th sub-statement on
visit_children(st, i, count, cont) ==
    IF i > Len(Children(st)) THEN [st |-> st, count |-> count, panic |-> FALSE]
    ELSE LET c == visit(Children(st)[i], count, cont) IN
         IF c.panic
         THEN [st |-> SetChild(st, i, c.st), count |-> c.count, panic |-> TRUE]
         ELSE visit_children(SetChild(st, i, c.st), i + 1, c.count, cont)

\* transform as a function, with iter_bodies handing out the bodies in a given
\* order: the bodies and the error counter it leaves, and whether it panicked
RECURSIVE transform_in_order(_, _, _, _)
transform_in_order(bs, order, count, cont) ==
    IF order = <<>> THEN [bodies |-> bs, count |-> count, panic |-> FALSE]
    ELSE LET r == visit(bs[Head(order)], count, cont) IN
         IF r.panic THEN [bodies |-> bs, count |-> r.count, panic |-> TRUE]
         ELSE transform_in_order([bs EXCEPT ![Head(order)] = r.st], Tail(order),
                                 r.count, cont)

\* transform is called on the crate
transform ==
    /\ UNCHANGED refs_vars
    /\ phase = "idle"
    /\ Len(runs) < MaxRuns
    /\ phase' = "pass"
    /\ cur' = 0
    /\ todo' = <<>>
    /\ UNCHANGED <<ctx_vars, bodies, error_count, runs, last, key_order, crates,
                   outputs>>

\* iter_bodies hands the next body to the closure, which visits its root
iter_bodies ==
    /\ UNCHANGED refs_vars
    /\ phase = "pass"
    /\ todo = <<>>
    /\ cur < Len(bodies)
    /\ cur' = cur + 1
    /\ todo' = << <<>> >>
    /\ UNCHANGED <<ctx_vars, bodies, error_count, phase, runs, last, key_order,
                   crates, outputs>>

\* transform returns
transform_done ==
    /\ UNCHANGED refs_vars
    /\ phase = "pass"
    /\ todo = <<>>
    /\ cur = Len(bodies)
    /\ phase' = "idle"
    /\ runs' = Append(runs, [bodies |-> bodies, error_count |-> error_count])
    /\ UNCHANGED <<ctx_vars, bodies, error_count, cur, todo, last, key_order,
                   crates, outputs>>

-----------------------------------------------------------------------------
(* export.rs: GCrateData::new, the derived Serialize, serialize_to_file *)

\* Vec::sort on the file ids
RECURSIVE insert_sorted(_, _)
insert_sorted(s, x) ==
    IF s = <<>> THEN <<x>>
    ELSE IF x <= Head(s) THEN <<x>> \o s
    ELSE <<Head(s)>> \o insert_sorted(Tail(s), x)

\* the file ids left in the order keys() gave them
unsorted(s) == s

RECURSIVE sort(_)
sort(s) == IF s = <<>> THEN <<>> ELSE insert_sorted(sort(Tail(s)), Head(s))

\* the iteration orders of a hash map's keys: every arrangement of them
KeyOrders(map) ==
    {s \in [1..Cardinality(DOMAIN map) -> DOMAIN map] :
        \A i, j \in DOMAIN s : i # j => s[i] # s[j]}

\* the file ids, sorted, each paired with its file name
sorted_files(keys, map) ==
    LET file_ids == sort(keys) IN
    [i \in DOMAIN file_ids |-> <<file_ids[i], map[file_ids[i]]>>]

\* an id-indexed map's iter(): its values in increasing id order
RECURSIVE iter(_)
iter(map) ==
    IF DOMAIN map = {} THEN <<>>
    ELSE LET id == CHOOSE x \in DOMAIN map : \A y \in DOMAIN map : x <= y IN
         <<map[id]>> \o iter([y \in DOMAIN map \ {id} |-> map[y]])

has_errors_never(count) == FALSE

has_errors(count) == count > 0

\* the GCrateData that GCrateData::new builds when keys() iterates in order keys
GCrateData(keys, crate_name, fun_decls, global_decls) ==
    [name |-> crate_name,
     id_to_file |-> sorted_files(keys, id_to_file),
     declarations |-> ordered_decls.groups,
     types |-> iter(type_decls),
     functions |-> fun_decls,
     globals |-> global_decls,
     trait_decls |-> iter(trait_decls),
     trait_impls |-> iter(trait_impls),
     has_errors |-> has_errors(error_count)]

\* GCrateData::new on the context as it stands; ordered_decls.unwrap() panics
\* when the declarations were not ordered
GCrateData_new ==
    /\ UNCHANGED refs_vars
    /\ phase \in {"idle", "exported"}
    /\ Len(crates) < MaxCrates
    /\ \E keys \in KeyOrders(id_to_file) :
          /\ key_order' = keys
          /\ IF ordered_decls.k = "None"
             THEN /\ phase' = "panicked"
                  /\ UNCHANGED crates
             ELSE /\ phase' = "exported"
                  /\ crates' = Append(crates, GCrateData(keys, "crate", bodies, <<>>))
    /\ UNCHANGED <<ctx_vars, bodies, error_count, cur, todo, runs, last, outputs>>

\* the derived Serialize of Variant without #[serde(skip)] on discriminant
serialize_variant_whole(v) ==
    [name |-> v.name, fields |-> v.fields, discriminant |-> v.discriminant]

\* #[derive(Serialize)] on Variant: discriminant is #[serde(skip)]
serialize_variant(v) == [name |-> v.name, fields |-> v.fields]

\* #[derive(Serialize)] on TypeDeclKind
serialize_kind(kind) ==
    IF kind.k = "Enum"
    THEN [Enum |-> [i \in DOMAIN kind.variants |-> serialize_variant(kind.variants[i])]]
    ELSE IF kind.k = "Struct" THEN [Struct |-> kind.fields]
    ELSE IF kind.k = "Error" THEN [Error |-> kind.msg]
    ELSE [Opaque |-> <<>>]

\* #[derive(Serialize)] on TypeDecl
serialize_type_decl(d) ==
    [def_id |-> d.def_id, name |-> d.name, kind |-> serialize_kind(d.kind)]

\* #[derive(Serialize)] on GCrateData, renamed "Crate": has_errors is
\* #[serde(skip_serializing)]
serialize(c) ==
    [Crate |->
        [name |-> c.name,
         id_to_file |-> c.id_to_file,
         declarations |-> c.declarations,
         types |-> [i \in DOMAIN c.types |-> serialize_type_decl(c.types[i])],
         functions |-> c.functions,
         globals |-> c.globals,
         trait_decls |-> c.trait_decls,
         trait_impls |-> c.trait_impls]]

\* what a call of serialize_to_file did: its result, the message it logged,
\* the steps it went through, and the destination file afterwards
Written(result, log, steps, file, partial) ==
    [result |-> result, log |-> log, steps |-> steps, file |-> file,
     partial |-> partial]

NoFile == [k |-> "NoFile"]

EmptyFile == [k |-> "Empty"]

\* serialize_to_file going on to encode the snapshot when the destination could
\* not be opened
serialize_to_file_result_unopened(c, has_parent, dir_ok, open_ok, write_ok) ==
    IF ~has_parent
    THEN Written("panic", "", <<"parent">>, NoFile, FALSE)
    ELSE IF ~dir_ok
    THEN Written("Err", "Could not create the directory",
                 <<"parent", "create_dir_all">>, NoFile, FALSE)
    ELSE IF ~write_ok
    THEN Written("Err", "Could not write to",
                 <<"parent", "create_dir_all", "File::create", "to_writer">>,
                 IF open_ok THEN EmptyFile ELSE NoFile, FALSE)
    ELSE Written("Ok",
                 IF c.has_errors
                 THEN "Generated the partial (because we encountered errors) file"
                 ELSE "Generated the file",
                 <<"parent", "create_dir_all", "File::create", "to_writer",
                   "canonicalize">>,
                 IF open_ok THEN serialize(c) ELSE NoFile, c.has_errors)

\* serialize_to_file on a snapshot, for a destination with or without a parent
\* directory and a file system on which each step succeeds or fails
serialize_to_file_result(c, has_parent, dir_ok, open_ok, write_ok) ==
    IF ~has_parent
    THEN Written("panic", "", <<"parent">>, NoFile, FALSE)
    ELSE IF ~dir_ok
    THEN Written("Err", "Could not create the directory",
                 <<"parent", "create_dir_all">>, NoFile, FALSE)
    ELSE IF ~open_ok
    THEN Written("Err", "Could not open",
                 <<"parent", "create_dir_all", "File::create">>, NoFile, FALSE)
    ELSE IF ~write_ok
    THEN Written("Err", "Could not write to",
                 <<"parent", "create_dir_all", "File::create", "to_writer">>,
                 EmptyFile, FALSE)
    ELSE Written("Ok",
                 IF c.has_errors
                 THEN "Generated the partial (because we encountered errors) file"
                 ELSE "Generated the file",
                 <<"parent", "create_dir_all", "File::create", "to_writer",
                   "canonicalize">>,
                 serialize(c), c.has_errors)

serialize_to_file ==
    /\ UNCHANGED refs_vars
    /\ phase = "exported"
    /\ crates # <<>>
    /\ \E has_parent, dir_ok, open_ok, write_ok \in BOOLEAN :
          LET r == serialize_to_file_result(crates[Len(crates)], has_parent,
                                            dir_ok, open_ok, write_ok)
          IN  /\ outputs' = r
              /\ phase' = IF r.result = "panic" THEN "panicked" ELSE phase
    /\ UNCHANGED <<ctx_vars, bodies, error_count, cur, todo, runs, last,
                   key_order, crates>>

-----------------------------------------------------------------------------
(* The crates the pass is run on *)

Dest == Place(1, <<>>)

Scrutinee == Place(2, <<>>)

Read(adt_id) == Assign(Dest, Discriminant(Scrutinee, adt_id))

\* the type declarations of the crate: two 8-bit enums, a 16-bit enum, a struct,
\* an opaque type and a declaration that failed to translate; id 6 is missing
TypeTable ==
    [id \in 0..5 |->
        TypeDecl(id, <<"crate", id>>,
            CASE id = 0 -> Enum(<<Variant("A", 0), Variant("B", 1)>>)
              [] id = 1 -> Enum(<<Variant("N", 255), Variant("Z", 0), Variant("P", 1)>>)
              [] id = 2 -> Enum(<<Variant("M", 65535), Variant("S", 255)>>)
              [] id = 3 -> Struct
              [] id = 4 -> Opaque
              [] id = 5 -> Error("could not translate"))]

TypeIds == 0..6

EnumIds == {0, 1, 2}

\* the case values a generated switch of an integer type draws from
CaseValues(ty) ==
    IF ty = "I8" THEN {Scalar(ty, -1), Scalar(ty, 0), Scalar(ty, 1)}
    ELSE {Scalar(ty, -1), Scalar(ty, 255)}

CaseLists(ty) == UNION {[1..n -> CaseValues(ty)] : n \in 1..MaxCaseValues}

\* the ways to cut a list of case values into the case lists of successive arms
RECURSIVE Cuts(_)
Cuts(s) ==
    IF s = <<>> THEN {<<>>}
    ELSE UNION {{<<SubSeq(s, 1, n)>> \o rest : rest \in Cuts(SubSeq(s, n + 1, Len(s)))} :
                n \in 1..Len(s)}

\* arm i of a generated switch goes to Break(i), the otherwise branch to Break(0)
ArmsOf(cut) == [i \in DOMAIN cut |-> Arm(cut[i], Break(i))]

ArmLists(ty) == {ArmsOf(cut) : cut \in UNION {Cuts(s) : s \in CaseLists(ty)}}

\* well-formed occurrences over the enums, with every choice of arms
ArmBodies ==
    {Sequence(Read(adt_id), SwitchInt(Move(Dest), ty, targets, Break(0))) :
        <<adt_id, ty, targets>> \in
            UNION {{<<a, t, l>> : a \in EnumIds, l \in ArmLists(t)} : t \in {"I8", "I16"}}}

TwoArms(op) ==
    SwitchInt(op, "I8", <<Arm(<<Scalar("I8", 0)>>, Break(1)),
                            Arm(<<Scalar("I8", 1)>>, Break(2))>>, Break(0))

\* the statements that may follow a discriminant read: the two shapes the pass
\* accepts, and others
Successors(switch) ==
    {switch, Sequence(switch, Break(3)), Break(3), Nop, Loop(switch),
     Sequence(Break(3), switch), Sequence(Sequence(switch, Break(3)), Break(4))}

Operands ==
    {Move(Dest), Copy(Dest), Move(Place(3, <<>>)), Move(Place(1, <<"Deref">>))}

\* occurrences of every shape: destination, declaration, switch operand, successor
ShapeBodies ==
    {Sequence(Assign(Place(1, proj), Discriminant(Scrutinee, adt_id)), st2) :
        <<proj, adt_id, st2>> \in
            {<<>>, <<"Deref">>} \X TypeIds \X UNION {Successors(TwoArms(op)) : op \in Operands}}

OneArm(st, otherwise) ==
    SwitchInt(Move(Dest), "I8", <<Arm(<<Scalar("I8", 0)>>, st)>>, otherwise)

\* statement trees by nesting depth: reads and occurrences inside arms, after
\* switches, after other statements, in loops and in conditionals
RECURSIVE Stmts(_)
Stmts(d) ==
    IF d = 0 THEN {Break(1), Read(0)}
    ELSE LET S == Stmts(d - 1) IN
         {Break(1), Read(0)}
         \cup {Sequence(Read(0), OneArm(st, Break(0))) : st \in S}
         \cup {Sequence(Read(0), Sequence(OneArm(Break(1), Break(0)), st)) : st \in S}
         \cup {Sequence(Read(0), st) : st \in S}
         \cup {Sequence(Break(1), st) : st \in S}
         \cup {Loop(st) : st \in S}
         \cup {If(Copy(Place(3, <<>>)), st, Break(2)) : st \in S}

NestBodies == Stmts(MaxDepth)

\* crates of two bodies
FirstBodies ==
    {Sequence(Read(0), TwoArms(Move(Dest))), Sequence(Read(0), Break(3)),
     Sequence(Read(3), TwoArms(Move(Dest))), Sequence(Read(5), TwoArms(Move(Dest))),
     Read(0), Break(1)}

PairCrates == {<<b1, b2>> : <<b1, b2>> \in FirstBodies \X Stmts(1)}

Input(crate, cont, count) == [bodies |-> crate, cont |-> cont, count |-> count]

Inputs ==
    {Input(<<b>>, cont, 0) : <<b, cont>> \in (ArmBodies \cup NestBodies) \X BOOLEAN}
    \cup {Input(<<b>>, cont, count) :
            <<b, cont, count>> \in ShapeBodies \X BOOLEAN \X (0..MaxPriorErrors)}
    \cup {Input(crate, cont, count) :
            <<crate, cont, count>> \in PairCrates \X BOOLEAN \X (0..MaxPriorErrors)}

FileNameOf(id) == IF id % 2 = 1 THEN "lib.rs" ELSE "main.rs"

FileTables == {[id \in S |-> FileNameOf(id)] : S \in SUBSET (1..MaxFiles)}

Some(x) == [k |-> "Some", groups |-> x]

NoCall == [k |-> "None"]

NotWritten == Written("None", "", <<>>, NoFile, FALSE)

InitControl ==
    /\ crate0 = [bodies |-> bodies, error_count |-> error_count]
    /\ phase = "idle"
    /\ cur = 0
    /\ todo = <<>>
    /\ runs = <<>>
    /\ last = NoCall
    /\ key_order = <<>>
    /\ crates = <<>>
    /\ outputs = NotWritten

Init ==
    /\ \E input \in Inputs :
          /\ bodies = input.bodies
          /\ continue_on_failure = input.cont
          /\ error_count = input.count
    /\ type_decls = TypeTable
    /\ id_to_file = [id \in {1} |-> FileNameOf(id)]
    /\ ordered_decls = Some(<<{"Type 0"}, {"Fun 0"}>>)
    /\ trait_decls = <<>>
    /\ trait_impls = <<>>
    /\ trait_refs = <<>>
    /\ ordered_refs = <<>>
    /\ InitControl

Next == transform \/ iter_bodies \/ visit_statement \/ transform_done

Spec == Init /\ [][Next]_vars

\* the crates that are assembled and exported
ExportCrates ==
    {<<Sequence(Read(0), TwoArms(Move(Dest)))>>,
     <<Sequence(Read(1), Sequence(TwoArms(Move(Dest)), Break(3)))>>,
     <<Sequence(Read(0), Break(3)), Sequence(Read(0), TwoArms(Move(Dest)))>>}

ExportInit ==
    /\ bodies \in ExportCrates
    /\ continue_on_failure \in BOOLEAN
    /\ error_count \in 0..MaxPriorErrors
    /\ type_decls = TypeTable
    /\ id_to_file \in FileTables
    /\ ordered_decls \in {None, Some(<<{"Type 0", "Type 1"}, {"Fun 0"}>>)}
    /\ trait_decls = <<>>
    /\ trait_impls = <<>>
    /\ trait_refs = <<>>
    /\ ordered_refs = <<>>
    /\ InitControl

ExportNext == Next \/ GCrateData_new \/ serialize_to_file

ExportSpec == ExportInit /\ [][ExportNext]_vars

\* the crates whose walk is followed to its end: nested statement trees,
\* occurrences of every shape, crates of two bodies
WalkInputs ==
    {Input(<<b>>, cont, 0) : <<b, cont>> \in (Stmts(2) \cup ShapeBodies) \X BOOLEAN}
    \cup {Input(crate, cont, count) :
            <<crate, cont, count>> \in PairCrates \X BOOLEAN \X (0..MaxPriorErrors)}

WalkInit ==
    /\ \E input \in WalkInputs :
          /\ bodies = input.bodies
          /\ continue_on_failure = input.cont
          /\ error_count = input.count
    /\ type_decls = TypeTable
    /\ id_to_file = [id \in {1} |-> FileNameOf(id)]
    /\ ordered_decls = Some(<<{"Type 0"}, {"Fun 0"}>>)
    /\ trait_decls = <<>>
    /\ trait_impls = <<>>
    /\ trait_refs = <<>>
    /\ ordered_refs = <<>>
    /\ InitControl

\* the pass is sequential code: once called, it takes its next step
FairSpec ==
    /\ WalkInit
    /\ [][Next]_vars
    /\ WF_vars(iter_bodies \/ visit_statement \/ transform_done)

\* the trait instance ids that are put in lists: every variant, and parent and
\* item clauses of each
PlainRefs ==
    {TraitImpl(0), TraitImpl(1), BuiltinOrAuto(0), Clause(0), Clause(1), FnPointer(0),
     Closure(0, 0), SelfId, Unsolved(0, 0), Unknown(0)}

TraitRefs ==
    PlainRefs \cup {ParentClause(w, 0, 0) : w \in PlainRefs}
              \cup {ItemClause(w, 0, 0, 1) : w \in PlainRefs}

TraitRefLists == UNION {[1..n -> TraitRefs] : n \in 1..MaxRefs}

\* lists of trait instance ids, to be sorted
OrderInit ==
    /\ bodies = <<Break(1)>>
    /\ continue_on_failure = TRUE
    /\ error_count = 0
    /\ type_decls = TypeTable
    /\ id_to_file = [id \in {1} |-> FileNameOf(id)]
    /\ ordered_decls = None
    /\ trait_decls = <<>>
    /\ trait_impls = <<>>
    /\ trait_refs \in TraitRefLists
    /\ ordered_refs = <<>>
    /\ InitControl

OrderNext == sort_trait_refs

OrderSpec == OrderInit /\ [][OrderNext]_vars

-----------------------------------------------------------------------------
(* Vocabulary of the properties *)

\* the sub-statements of a statement, in source order
Parts(st) ==
    CASE st.k = "Sequence" -> <<st.st1, st.st2>>
      [] st.k = "Loop" -> <<st.body>>
      [] st.k = "If" -> <<st.st1, st.st2>>
      [] st.k \in {"SwitchInt", "Match"} ->
            [i \in DOMAIN st.targets |-> st.targets[i].st]
                \o (IF st.otherwise.k = "None" THEN <<>> ELSE <<st.otherwise>>)
      [] OTHER -> <<>>

\* the number of assignments of a Discriminant rvalue in a statement tree
RECURSIVE Reads(_), ReadsIn(_)
Reads(st) ==
    (IF st.k = "Assign" /\ st.rv.k = "Discriminant" THEN 1 ELSE 0) + ReadsIn(Parts(st))

ReadsIn(sts) == IF sts = <<>> THEN 0 ELSE Reads(Head(sts)) + ReadsIn(Tail(sts))

\* a discriminant read at the head of a sequence
HeadsRead(st) ==
    st.k = "Sequence" /\ st.st1.k = "Assign" /\ st.st1.rv.k = "Discriminant"

\* the successor of the read has one of the two shapes the pass accepts
SwitchFollows(st) ==
    \/ st.st2.k = "SwitchInt"
    \/ st.st2.k = "Sequence" /\ st.st2.st1.k = "SwitchInt"

HasSt3(st) == st.st2.k = "Sequence"

SwitchOf(st) == IF HasSt3(st) THEN st.st2.st1 ELSE st.st2

DeclaredEnum(adt_id) ==
    adt_id \in DOMAIN type_decls /\ type_decls[adt_id].kind.k = "Enum"

VariantsOf(adt_id) == type_decls[adt_id].kind.variants

DistinctDiscriminants(variants) ==
    \A i, j \in DOMAIN variants :
        i # j => variants[i].discriminant # variants[j].discriminant

DiscriminantsOf(variants) == {variants[i].discriminant : i \in DOMAIN variants}

\* the bit pattern of a case value of a signed integer type
BitPattern(x) == IF x.v >= 0 THEN x.v ELSE x.v + 2 ^ Width(x.ty)

CasePatterns(switch) ==
    UNION {{BitPattern(switch.targets[i].cases[j]) : j \in DOMAIN switch.targets[i].cases} :
           i \in DOMAIN switch.targets}

\* `dest := Discriminant(p, adt_id); SwitchInt(move dest, arms, otherwise) [; st3]`
\* over an enum with pairwise distinct discriminants, every case value being the
\* discriminant of a variant
WellFormedOccurrence(st) ==
    /\ HeadsRead(st)
    /\ SwitchFollows(st)
    /\ st.st1.dest.projection = <<>>
    /\ SwitchOf(st).op = Move(st.st1.dest)
    /\ DeclaredEnum(st.st1.rv.adt_id)
    /\ DistinctDiscriminants(VariantsOf(st.st1.rv.adt_id))
    /\ CasePatterns(SwitchOf(st)) \subseteq DiscriminantsOf(VariantsOf(st.st1.rv.adt_id))

Called == last.k = "update_statement"

\* the match the last call left, when it rewrote an occurrence
MatchOf(call) == IF HasSt3(call.before) THEN call.after.st1 ELSE call.after

\* the match has the arms of the switch, in order, with the same targets, each
\* case value replaced by the id of the variant with that discriminant
SameArms(match, switch, variants) ==
    /\ Len(match.targets) = Len(switch.targets)
    /\ \A i \in DOMAIN switch.targets :
          /\ match.targets[i].st = switch.targets[i].st
          /\ Len(match.targets[i].cases) = Len(switch.targets[i].cases)
          /\ \A j \in DOMAIN switch.targets[i].cases :
                /\ match.targets[i].cases[j] + 1 \in DOMAIN variants
                /\ variants[match.targets[i].cases[j] + 1].discriminant
                      = BitPattern(switch.targets[i].cases[j])

\* the last call replaced a well-formed occurrence by a match on the place read
RewrittenToMatch(call) ==
    /\ ~call.panic
    /\ call.errs = 0
    /\ IF HasSt3(call.before)
       THEN call.after.k = "Sequence" /\ call.after.st2 = call.before.st2.st2
       ELSE TRUE
    /\ MatchOf(call).k = "Match"
    /\ MatchOf(call).p = call.before.st1.rv.p
    /\ SameArms(MatchOf(call), SwitchOf(call.before),
                VariantsOf(call.before.st1.rv.adt_id))

\* the reads inside the arm targets, the otherwise branch and st3 of an occurrence
NestedReads(st) ==
    Reads(SwitchOf(st)) + (IF HasSt3(st) THEN Reads(st.st2.st2) ELSE 0)

-----------------------------------------------------------------------------
(* C1 *)

\* C1, as stated: update_statement replaces a well-formed occurrence by a match
\* on the place read, with the arms of the switch in order, their case values
\* replaced by variant ids and their targets unchanged, followed by st3 if
\* there was one, and the result contains no Discriminant rvalue at all.
C1_AsStated ==
    (Called /\ WellFormedOccurrence(last.before)) =>
        (RewrittenToMatch(last) /\ Reads(last.after) = 0)

\* C1, amended: the same, except that the result contains no Discriminant
\* rvalue other than those inside the arm targets, the otherwise branch and
\* st3, which update_statement leaves as they were (the read at the head of
\* the occurrence is the only one it removes).
C1_Rewrite ==
    (Called /\ WellFormedOccurrence(last.before)) =>
        /\ RewrittenToMatch(last)
        /\ Reads(last.after) <= NestedReads(last.before)
        /\ Reads(last.after) =
              ReadsIn([i \in DOMAIN MatchOf(last).targets |-> MatchOf(last).targets[i].st])
              + (IF MatchOf(last).otherwise.k = "None" THEN 0
                 ELSE Reads(MatchOf(last).otherwise))
              + (IF HasSt3(last.before) THEN Reads(last.before.st2.st2) ELSE 0)

\* an occurrence followed by a statement st3 that holds a read was rewritten
C1_Witness ==
    /\ Called
    /\ WellFormedOccurrence(last.before)
    /\ HasSt3(last.before)
    /\ Reads(last.before.st2.st2) > 0
    /\ last.after.k = "Sequence"

-----------------------------------------------------------------------------
(* C2 *)

\* C2: for a well-formed occurrence (distinct discriminants, every case value a
\* discriminant of the enum), the match has no otherwise branch when the case
\* values of all arms together cover every variant's discriminant, and keeps the
\* otherwise branch of the switch unchanged when they cover a proper subset.
C2_Coverage ==
    (Called /\ WellFormedOccurrence(last.before)) =>
        /\ ~last.panic
        /\ MatchOf(last).k = "Match"
        /\ IF CasePatterns(SwitchOf(last.before))
                = DiscriminantsOf(VariantsOf(last.before.st1.rv.adt_id))
           THEN MatchOf(last).otherwise = None
           ELSE MatchOf(last).otherwise = SwitchOf(last.before).otherwise

\* two arms that together cover the three variants of an enum: the otherwise
\* branch was dropped
C2_Witness ==
    /\ Called
    /\ WellFormedOccurrence(last.before)
    /\ Len(VariantsOf(last.before.st1.rv.adt_id)) = 3
    /\ Len(SwitchOf(last.before).targets) = 2
    /\ last.after.k = "Match"
    /\ last.after.otherwise = None

-----------------------------------------------------------------------------
(* C3 *)

Completed == runs # <<>>

\* C3: when transform has run to completion, no body holds an assignment of a
\* Discriminant rvalue, at any depth.
C3_NoReadLeft ==
    /\ \A r \in DOMAIN runs :
          \A b \in DOMAIN runs[r].bodies : Reads(runs[r].bodies[b]) = 0
    /\ (Completed /\ phase = "idle") =>
          \A b \in DOMAIN bodies : Reads(bodies[b]) = 0

\* the pass completed on a body that held three reads, nested in one another
C3_Witness ==
    /\ Completed
    /\ \E b \in DOMAIN crate0.bodies : Reads(crate0.bodies[b]) >= 3

-----------------------------------------------------------------------------
(* C4 *)

\* C4: once the pass has completed on a crate, running it again completes,
\* leaves every body as the first run left it and registers no further error.
C4_Idempotent ==
    Completed =>
        /\ phase # "panicked"
        /\ bodies = runs[1].bodies
        /\ error_count = runs[1].error_count
        /\ \A r \in DOMAIN runs : runs[r] = runs[1]

\* the pass ran twice on a crate that its first run changed, registering an error
C4_Witness ==
    /\ Len(runs) >= 2
    /\ runs[1].bodies # crate0.bodies
    /\ runs[1].error_count > crate0.error_count

-----------------------------------------------------------------------------
(* C5 *)

\* the reads into a variable that are followed by a statement of another shape
\* than the two accepted
RECURSIVE WrongSuccessors(_), WrongSuccessorsIn(_)
WrongSuccessors(st) ==
    (IF HeadsRead(st) /\ ~SwitchFollows(st) /\ st.st1.dest.projection = <<>>
     THEN 1 ELSE 0) + WrongSuccessorsIn(Parts(st))

WrongSuccessorsIn(sts) ==
    IF sts = <<>> THEN 0 ELSE WrongSuccessors(Head(sts)) + WrongSuccessorsIn(Tail(sts))

\* the well-formed occurrences of a statement tree
RECURSIVE WellFormedOccurrences(_), WellFormedOccurrencesIn(_)
WellFormedOccurrences(st) ==
    (IF WellFormedOccurrence(st) THEN 1 ELSE 0) + WellFormedOccurrencesIn(Parts(st))

WellFormedOccurrencesIn(sts) ==
    IF sts = <<>> THEN 0
    ELSE WellFormedOccurrences(Head(sts)) + WellFormedOccurrencesIn(Tail(sts))

\* the matches of a statement tree
RECURSIVE Matches(_), MatchesIn(_)
Matches(st) == (IF st.k = "Match" THEN 1 ELSE 0) + MatchesIn(Parts(st))

MatchesIn(sts) == IF sts = <<>> THEN 0 ELSE Matches(Head(sts)) + MatchesIn(Tail(sts))

\* exactly one read of the crate, a read into a variable, is followed by a
\* non-SwitchInt statement, and every other read heads a well-formed occurrence
OneMalformed(crate) ==
    /\ WrongSuccessorsIn(crate) = 1
    /\ ReadsIn(crate) = 1 + WellFormedOccurrencesIn(crate)

\* the id of the variant whose discriminant is the bit pattern of a case value
IdOf(variants, x) ==
    (CHOOSE i \in DOMAIN variants : variants[i].discriminant = BitPattern(x)) - 1

\* a statement tree with every well-formed occurrence rewritten to a match and
\* every sequence headed by a read with a wrong successor replaced by a no-op
RECURSIVE Normal(_)
Normal(st) ==
    IF WellFormedOccurrence(st)
    THEN LET switch == SwitchOf(st)
             variants == VariantsOf(st.st1.rv.adt_id)
             match ==
                Match(st.st1.rv.p,
                      [i \in DOMAIN switch.targets |->
                          Arm([j \in DOMAIN switch.targets[i].cases |->
                                  IdOf(variants, switch.targets[i].cases[j])],
                              Normal(switch.targets[i].st))],
                      IF CasePatterns(switch) = DiscriminantsOf(variants) THEN None
                      ELSE Normal(switch.otherwise))
         IN  IF HasSt3(st) THEN Sequence(match, Normal(st.st2.st2)) ELSE match
    ELSE IF HeadsRead(st) THEN Nop
    ELSE CASE st.k = "Sequence" -> Sequence(Normal(st.st1), Normal(st.st2))
           [] st.k = "Loop" -> Loop(Normal(st.body))
           [] st.k = "If" -> If(st.op, Normal(st.st1), Normal(st.st2))
           [] st.k = "SwitchInt" ->
                SwitchInt(st.op, st.int_ty,
                          [i \in DOMAIN st.targets |->
                              Arm(st.targets[i].cases, Normal(st.targets[i].st))],
                          Normal(st.otherwise))
           [] OTHER -> st

\* C5, as stated: in a crate with exactly one read followed by a non-SwitchInt
\* statement (error-tolerant mode), the pass completes, the error counter grows
\* by exactly one, and every well-formed occurrence of the crate is rewritten
\* to a match.
C5_AsStated ==
    (continue_on_failure /\ OneMalformed(crate0.bodies)) =>
        /\ phase # "panicked"
        /\ Completed =>
              /\ runs[1].error_count = crate0.error_count + 1
              /\ MatchesIn(runs[1].bodies) = WellFormedOccurrencesIn(crate0.bodies)

\* C5, amended: in error-tolerant mode, in a crate with exactly one read (into
\* a variable) followed by a non-SwitchInt statement, every other read heading
\* a well-formed occurrence, the sequence headed by that read (the
\* read together with the statement after it, that is the rest of its block) is
\* replaced by a no-op and the error counter grows by exactly one; every
\* well-formed occurrence outside that sequence, in another body or elsewhere
\* in the same body, is rewritten to a match as if that sequence were a no-op.
C5_Isolation ==
    (continue_on_failure /\ OneMalformed(crate0.bodies)) =>
        /\ phase # "panicked"
        /\ Completed =>
              /\ runs[1].error_count = crate0.error_count + 1
              /\ runs[1].bodies =
                    [b \in DOMAIN crate0.bodies |-> Normal(crate0.bodies[b])]

\* the pass completed on a crate of two bodies, one with the malformed read and
\* one with a well-formed occurrence, which became a match
C5_Witness ==
    /\ continue_on_failure
    /\ OneMalformed(crate0.bodies)
    /\ Completed
    /\ Len(crate0.bodies) = 2
    /\ \E b \in DOMAIN crate0.bodies :
          WrongSuccessors(crate0.bodies[b]) = 0 /\ Matches(runs[1].bodies[b]) = 1

-----------------------------------------------------------------------------
(* C6 *)

DestProjected(st) == st.st1.dest.projection # <<>>

MovesDest(st) == SwitchOf(st).op = Move(st.st1.dest)

NoVariants(adt_id, kinds) ==
    IF adt_id \in DOMAIN type_decls THEN type_decls[adt_id].kind.k \in kinds
    ELSE "Missing" \in kinds

\* the case values of a switch that are no discriminant of the variants
UnknownCases(switch, variants) ==
    UNION {{<<i, j>> : j \in {n \in DOMAIN switch.targets[i].cases :
                BitPattern(switch.targets[i].cases[n]) \notin DiscriminantsOf(variants)}} :
           i \in DOMAIN switch.targets}

\* the failures C6 lists, met by the last call
FailureMet ==
    /\ Called
    /\ HeadsRead(last.before)
    /\ \/ DestProjected(last.before)
       \/ ~SwitchFollows(last.before)
       \/ ~MovesDest(last.before)
       \/ ~DeclaredEnum(last.before.st1.rv.adt_id)
       \/ UnknownCases(SwitchOf(last.before),
                       VariantsOf(last.before.st1.rv.adt_id)) # {}

\* C6, as stated: in error-tolerant mode every failure met while processing an
\* occurrence is counted and none aborts the pass.
C6_AsStated ==
    (continue_on_failure /\ FailureMet) => (~last.panic /\ last.errs >= 1)

\* C6, amended: in error-tolerant mode, with the checks made in this order:
\* a destination with a projection aborts the pass; a wrong successor shape
\* turns the sequence into a no-op and counts one error; a switch that does
\* not read the temporary by move aborts the pass; a struct or opaque
\* scrutinee turns the sequence into a no-op and counts one error; an error
\* placeholder or a missing declaration turns it into a no-op and counts no
\* error when the counter is already non-zero, and aborts the pass when the
\* counter is zero; each case value that is no variant's discriminant counts
\* one error and is dropped, the occurrence still being rewritten to a match.
C6_Failures ==
    (continue_on_failure /\ Called /\ HeadsRead(last.before)) =>
        LET st == last.before
            adt_id == st.st1.rv.adt_id
        IN  IF DestProjected(st) THEN last.panic /\ last.errs = 0
            ELSE IF ~SwitchFollows(st)
            THEN ~last.panic /\ last.errs = 1 /\ last.after = Nop
            ELSE IF ~MovesDest(st) THEN last.panic /\ last.errs = 0
            ELSE IF NoVariants(adt_id, {"Struct", "Opaque"})
            THEN ~last.panic /\ last.errs = 1 /\ last.after = Nop
            ELSE IF NoVariants(adt_id, {"Error", "Missing"})
            THEN IF last.count > 0
                 THEN ~last.panic /\ last.errs = 0 /\ last.after = Nop
                 ELSE last.panic /\ last.errs = 0
            ELSE /\ ~last.panic
                 /\ last.errs = Cardinality(UnknownCases(SwitchOf(st), VariantsOf(adt_id)))
                 /\ MatchOf(last).k = "Match"

\* in error-tolerant mode, with no error counted before, an occurrence over a
\* struct was turned into a no-op and counted
C6_Witness ==
    /\ continue_on_failure
    /\ Called
    /\ HeadsRead(last.before)
    /\ ~DestProjected(last.before)
    /\ SwitchFollows(last.before)
    /\ MovesDest(last.before)
    /\ NoVariants(last.before.st1.rv.adt_id, {"Struct"})
    /\ last.count = 0
    /\ last.after = Nop
    /\ error_count = 1

-----------------------------------------------------------------------------
(* C7 *)

\* a case value and a stored discriminant that is a bit pattern of the width of
\* the case value's type are equal modulo 2^w
EqualModulo(x, d) ==
    /\ d < 2 ^ Width(x.ty)
    /\ (x.v - d) % (2 ^ Width(x.ty)) = 0

\* the ids of the variants the case values of an arm are equal to modulo 2^w
RECURSIVE IdsModulo(_, _)
IdsModulo(cases, variants) ==
    IF cases = <<>> THEN <<>>
    ELSE (IF \E i \in DOMAIN variants : EqualModulo(Head(cases), variants[i].discriminant)
          THEN <<(CHOOSE i \in DOMAIN variants :
                     EqualModulo(Head(cases), variants[i].discriminant)) - 1>>
          ELSE <<>>)
         \o IdsModulo(Tail(cases), variants)

\* the last call rewrote an occurrence over an enum with distinct discriminants
RewroteEnum ==
    /\ Called
    /\ ~last.panic
    /\ HeadsRead(last.before)
    /\ SwitchFollows(last.before)
    /\ DeclaredEnum(last.before.st1.rv.adt_id)
    /\ DistinctDiscriminants(VariantsOf(last.before.st1.rv.adt_id))

\* C7: a case value is replaced by the id of a variant exactly when the value
\* and the variant's stored discriminant, a bit pattern of the width w of the
\* value's signed type, are equal modulo 2^w; so the I8 value -1 matches the
\* discriminant 255.
C7_BitWidth ==
    RewroteEnum =>
        /\ MatchOf(last).k = "Match"
        /\ \A i \in DOMAIN SwitchOf(last.before).targets :
              MatchOf(last).targets[i].cases =
                 IdsModulo(SwitchOf(last.before).targets[i].cases,
                           VariantsOf(last.before.st1.rv.adt_id))

\* an arm with the single I8 case value -1 over the enum whose first variant
\* has discriminant 255 was given that variant's id
C7_Witness ==
    /\ RewroteEnum
    /\ VariantsOf(last.before.st1.rv.adt_id)[1].discriminant = 255
    /\ SwitchOf(last.before).targets[1].cases = <<Scalar("I8", -1)>>
    /\ MatchOf(last).targets[1].cases = <<0>>

-----------------------------------------------------------------------------
(* C8 *)

\* C8: every snapshot's has_errors is true exactly when the context's error
\* counter is non-zero at assembly (the counter does not change afterwards), and
\* a successful write reports the snapshot partial exactly then.
C8_PartialFlag ==
    /\ \A i \in DOMAIN crates : crates[i].has_errors <=> error_count > 0
    /\ outputs.result = "Ok" => (outputs.partial <=> error_count > 0)

\* a crate that started with no error and in which the pass registered one was
\* assembled, and the snapshot is marked partial
C8_Witness ==
    /\ crate0.error_count = 0
    /\ Completed
    /\ error_count > 0
    /\ crates # <<>>
    /\ crates[1].has_errors

-----------------------------------------------------------------------------
(* C9 *)

\* the list holds one pair per entry of the file table, with the name the table
\* gives the id, in strictly increasing id order
SortedTable(files) ==
    /\ Len(files) = Cardinality(DOMAIN id_to_file)
    /\ \A j \in DOMAIN files :
          /\ files[j][1] \in DOMAIN id_to_file
          /\ files[j][2] = id_to_file[files[j][1]]
    /\ \A j, n \in DOMAIN files : j < n => files[j][1] < files[n][1]

\* C9: whatever order the keys of the file table iterate in, id_to_file holds
\* one pair per entry, with the entry's name, in strictly increasing id order,
\* and declarations is the ordered groups taken verbatim; so all snapshots of
\* one context have the same id_to_file and declarations, and serialize alike.
C9_Deterministic ==
    /\ \A i \in DOMAIN crates :
          /\ SortedTable(crates[i].id_to_file)
          /\ crates[i].declarations = ordered_decls.groups
    /\ \A i, j \in DOMAIN crates :
          /\ crates[i].id_to_file = crates[j].id_to_file
          /\ crates[i].declarations = crates[j].declarations
          /\ serialize(crates[i]) = serialize(crates[j])

\* a context with two files was assembled twice, the second time with the keys
\* iterating in decreasing order
C9_Witness ==
    /\ Len(crates) = 2
    /\ Len(key_order) = 2
    /\ key_order[1] > key_order[2]

-----------------------------------------------------------------------------
(* C10 *)

DiscriminantValues == {0, 1, 255, 65535}

\* a type declaration with the discriminant of its n-th variant set to d
WithDiscriminant(decl, n, d) ==
    IF decl.kind.k = "Enum" /\ n \in DOMAIN decl.kind.variants
    THEN [decl EXCEPT !.kind.variants[n].discriminant = d]
    ELSE decl

\* the snapshots that differ from c only in the discriminant of one variant, or
\* in having one and the same discriminant in every variant
Rediscriminated(c) ==
    {[c EXCEPT !.types[i] = WithDiscriminant(@, n, d)] :
        <<i, n, d>> \in (DOMAIN c.types) \X (1..3) \X DiscriminantValues}
    \cup {[c EXCEPT !.types =
              [i \in DOMAIN c.types |->
                  IF c.types[i].kind.k = "Enum"
                  THEN [c.types[i] EXCEPT !.kind.variants =
                          [n \in DOMAIN @ |-> [@[n] EXCEPT !.discriminant = d]]]
                  ELSE c.types[i]]] : d \in DiscriminantValues}

\* C10: a snapshot serializes to the same output as every snapshot that differs
\* from it only in discriminants of enum variants, and what a successful write
\* leaves in the file is that output.
C10_NoDiscriminant ==
    /\ \A i \in DOMAIN crates :
          \A alt \in Rediscriminated(crates[i]) :
              serialize(alt) = serialize(crates[i])
    /\ outputs.result = "Ok" =>
          \A alt \in Rediscriminated(crates[Len(crates)]) :
              outputs.file = serialize(alt)

\* after the pass ran, a snapshot with enums was written, and there are
\* snapshots that differ from it in a discriminant
C10_Witness ==
    /\ Completed
    /\ outputs.result = "Ok"
    /\ \E alt \in Rediscriminated(crates[1]) : alt # crates[1]
    /\ \E i \in DOMAIN crates[1].types : crates[1].types[i].kind.k = "Enum"

-----------------------------------------------------------------------------
(* C11 *)

\* the steps of serialize_to_file on a destination that has a parent directory
WriteSteps == <<"parent", "create_dir_all", "File::create", "to_writer", "canonicalize">>

\* the steps taken are the first n steps, in order
TookSteps(r, n) == r.steps = SubSeq(WriteSteps, 1, n)

\* what serialize_to_file does with snapshot c on a destination with a parent,
\* when the three steps succeed or fail as the flags say
WriteContract(c, dir_ok, open_ok, write_ok) ==
    LET r == serialize_to_file_result(c, TRUE, dir_ok, open_ok, write_ok) IN
    /\ r.result \in {"Ok", "Err"}
    /\ r.result = "Ok" <=> (dir_ok /\ open_ok /\ write_ok)
    /\ ~dir_ok =>
          TookSteps(r, 2) /\ r.log = "Could not create the directory" /\ r.file = NoFile
    /\ (dir_ok /\ ~open_ok) =>
          TookSteps(r, 3) /\ r.log = "Could not open" /\ r.file = NoFile
    /\ (dir_ok /\ open_ok /\ ~write_ok) =>
          TookSteps(r, 4) /\ r.log = "Could not write to" /\ r.file # serialize(c)
    /\ (dir_ok /\ open_ok /\ write_ok) =>
          /\ TookSteps(r, 5)
          /\ r.file = serialize(c)
          /\ r.partial = c.has_errors
          /\ r.log = (IF c.has_errors
                      THEN "Generated the partial (because we encountered errors) file"
                      ELSE "Generated the file")

-----------------------------------------------------------------------------
(* C12 *)

\* C12: once a list of trait instance ids is sorted by the derived order, each
\* of its entries of another variant than SelfId is strictly less than SelfId,
\* and its SelfId entries are at the end.
C12_SelfLast ==
    ordered_refs # <<>> =>
        /\ \A i \in DOMAIN ordered_refs :
              ordered_refs[i].k # "SelfId" => cmp(ordered_refs[i], SelfId) = "Less"
        /\ \A i, j \in DOMAIN ordered_refs :
              (ordered_refs[i].k = "SelfId" /\ i < j) => ordered_refs[j].k = "SelfId"

-----------------------------------------------------------------------------
(* C13 *)

\* the last call rewrote an occurrence over an enum to a match
RewroteToMatch ==
    /\ Called
    /\ ~last.panic
    /\ HeadsRead(last.before)
    /\ SwitchFollows(last.before)
    /\ DeclaredEnum(last.before.st1.rv.adt_id)
    /\ MatchOf(last).k = "Match"

\* the variant ids in the case lists of the arms of a match
MatchedIds(match) ==
    UNION {{match.targets[i].cases[j] : j \in DOMAIN match.targets[i].cases} :
           i \in DOMAIN match.targets}

\* C13: when the match that replaces an occurrence has no otherwise branch,
\* every variant id of the enum occurs in the case list of one of its arms.
C13_DroppedOnlyUnreachable ==
    (RewroteToMatch /\ MatchOf(last).otherwise = None) =>
        \A i \in DOMAIN VariantsOf(last.before.st1.rv.adt_id) :
            VariantIdOf(i) \in MatchedIds(MatchOf(last))

-----------------------------------------------------------------------------
(* C14 *)

\* the last call was on an occurrence that passes the checks made before the
\* lookup of the declaration, which is of one of the kinds
LookedUp(kinds) ==
    /\ Called
    /\ HeadsRead(last.before)
    /\ ~DestProjected(last.before)
    /\ SwitchFollows(last.before)
    /\ MovesDest(last.before)
    /\ NoVariants(last.before.st1.rv.adt_id, kinds)

\* C14, as stated: when the declaration is a struct, opaque, an error
\* placeholder or missing, update_statement registers an error, whatever the
\* error counter was, and (when the context continues on failure) replaces the
\* occurrence by a no-op.
C14_AsStated ==
    LookedUp({"Struct", "Opaque", "Error", "Missing"}) =>
        /\ last.errs >= 1
        /\ continue_on_failure => (~last.panic /\ last.after = Nop)

\* C14, amended: when the declaration is a struct or opaque, update_statement
\* registers one error, whatever the error counter was, and replaces the
\* occurrence by a no-op when the context continues on failure (it aborts when
\* not); when the declaration is an error placeholder or missing, it registers
\* no error: it replaces the occurrence by a no-op when the error counter is
\* already non-zero, and aborts when the counter is zero.
C14_NonEnum ==
    /\ LookedUp({"Struct", "Opaque"}) =>
          /\ last.errs = 1
          /\ last.panic <=> ~continue_on_failure
          /\ ~last.panic => last.after = Nop
    /\ LookedUp({"Error", "Missing"}) =>
          /\ last.errs = 0
          /\ last.panic <=> last.count = 0
          /\ ~last.panic => last.after = Nop

\* an occurrence over the error placeholder was met with an error already
\* counted: it became a no-op and the counter did not move
C14_Witness ==
    /\ LookedUp({"Error"})
    /\ last.count = 1
    /\ last.after = Nop
    /\ error_count = 1

-----------------------------------------------------------------------------
(* C15 *)

\* the last call was on a sequence headed by a read into a variable that is followed
\* by neither a SwitchInt nor a sequence whose first statement is a SwitchInt
WrongSuccessorMet ==
    /\ Called
    /\ HeadsRead(last.before)
    /\ ~DestProjected(last.before)
    /\ ~SwitchFollows(last.before)

-----------------------------------------------------------------------------
(* C16 *)

\* the last call was on an occurrence over an enum with distinct discriminants
\* that passes every check made before the case values are converted
ConvertedCases ==
    /\ LookedUp({"Enum"})
    /\ DistinctDiscriminants(VariantsOf(last.before.st1.rv.adt_id))

\* the case values of an arm that are discriminants, as variant ids, in order
RECURSIVE KeptIds(_, _)
KeptIds(cases, variants) ==
    IF cases = <<>> THEN <<>>
    ELSE (IF BitPattern(Head(cases)) \in DiscriminantsOf(variants)
          THEN <<IdOf(variants, Head(cases))>> ELSE <<>>)
         \o KeptIds(Tail(cases), variants)

-----------------------------------------------------------------------------
(* C17 *)

\* C17: every step of the pass, from the call of transform to its return or
\* abort, leaves the type, trait declaration and trait implementation tables,
\* the file table and the declaration ordering of the context as they are, and
\* does not decrease the error counter.
C17_Frame ==
    [][(phase = "pass" \/ phase' = "pass") =>
          /\ type_decls' = type_decls
          /\ trait_decls' = trait_decls
          /\ trait_impls' = trait_impls
          /\ id_to_file' = id_to_file
          /\ ordered_decls' = ordered_decls
          /\ error_count' >= error_count]_vars

\* the pass completed on a crate of two bodies and the error counter advanced
C17_Witness ==
    /\ Completed
    /\ Len(crate0.bodies) = 2
    /\ runs[1].error_count > crate0.error_count
    /\ type_decls = TypeTable

-----------------------------------------------------------------------------
(* C18 *)

\* the orders in which n bodies can be processed
Orders(n) == {o \in [1..n -> 1..n] : \A i, j \in 1..n : o[i] = o[j] => i = j}

\* the first run of the pass on the crate has ended, by completing or aborting
FirstRunEnded == Completed \/ (phase = "panicked" /\ runs = <<>>)

\* the outcome of that run
FirstRun ==
    IF Completed
    THEN [bodies |-> runs[1].bodies, count |-> runs[1].error_count, panic |-> FALSE]
    ELSE [bodies |-> bodies, count |-> error_count, panic |-> TRUE]

\* two runs both abort, or both complete with the same bodies and error counter
SameOutcome(a, b) ==
    /\ a.panic = b.panic
    /\ ~a.panic => (a.bodies = b.bodies /\ a.count = b.count)

\* the outcome of the pass on the crate the context started with, in an order
InOrder(order) ==
    transform_in_order(crate0.bodies, order, crate0.error_count, continue_on_failure)

\* the declarations the reads of a statement tree name
RECURSIVE ReadIds(_)
ReadIds(st) ==
    (IF st.k = "Assign" /\ st.rv.k = "Discriminant" THEN {st.rv.adt_id} ELSE {})
    \cup UNION {ReadIds(Parts(st)[i]) : i \in DOMAIN Parts(st)}

\* no read of the crate names an error placeholder or a missing declaration
NoLostDeclaration(crate) ==
    \A b \in DOMAIN crate : \A id \in ReadIds(crate[b]) :
        ~NoVariants(id, {"Error", "Missing"})

-----------------------------------------------------------------------------
(* C19 *)

\* the last call was on an assignment of a Discriminant rvalue, a statement of
\* its own that the visitor reached
LoneReadMet == Called /\ IsDiscriminantRead(last.before)

\* C19: when the visitor reaches a Discriminant assignment that is a statement
\* of its own, the pass aborts, whether or not the context continues on
\* failure: the statement is left as it is, no error is counted, and the pass
\* does not report completion.
C19_LoneReadAborts ==
    LoneReadMet =>
        /\ last.panic
        /\ last.errs = 0
        /\ last.after = last.before
        /\ error_count = last.count
        /\ phase = "panicked"
        /\ runs = <<>>
        /\ At(bodies[cur], Head(todo)) = last.before

\* in a context that continues on failure, the visitor reached a read that is
\* the last statement of a block, and the pass aborted
C19_Witness ==
    /\ LoneReadMet
    /\ continue_on_failure
    /\ phase = "panicked"
    /\ Len(Head(todo)) >= 1
    /\ Head(todo)[Len(Head(todo))] = 2

-----------------------------------------------------------------------------
(* C20 *)

\* the number of statements of a statement tree
RECURSIVE Size(_), SizeIn(_)
Size(st) == 1 + SizeIn(Parts(st))

SizeIn(sts) == IF sts = <<>> THEN 0 ELSE Size(Head(sts)) + SizeIn(Tail(sts))

\* the work the pass has left: the statements under the pending visits, and the
\* bodies not yet handed out with their statements
Pending ==
    IF phase # "pass" THEN 0
    ELSE SizeIn([i \in DOMAIN todo |-> At(bodies[cur], todo[i])])
         + SizeIn([i \in 1..(Len(bodies) - cur) |-> bodies[cur + i]])
         + (Len(bodies) - cur)

\* update_statement leaves what the last call left as it is
LeftAlone ==
    (Called /\ ~last.panic) =>
        update_statement(last.after, type_decls, error_count, continue_on_failure)
            = Outcome(last.after, 0, FALSE)

\* C20: every step of the pass that does not end it decreases the work left,
\* which is finite, so the walk does not loop; the statement a call of
\* update_statement leaves is one update_statement does not rewrite again; and
\* a pass that was started ends, by completing or aborting.
C20_Terminates ==
    /\ [][(phase = "pass" /\ phase' = "pass") => Pending' < Pending]_vars
    /\ [](Pending >= 0 /\ LeftAlone)
    /\ (phase = "pass") ~> (phase # "pass")

\* the pass completed after rewriting an occurrence inside an arm of a
\* rewritten occurrence
C20_Witness ==
    /\ Completed
    /\ \E b \in DOMAIN runs[1].bodies :
          /\ runs[1].bodies[b].k = "Match"
          /\ \E i \in DOMAIN runs[1].bodies[b].targets :
                Matches(runs[1].bodies[b].targets[i].st) >= 1

====
